---------------------------- MODULE Spec2Model ----------------------------
(***************************************************************************)
(* Model of backtesting-overnight.py: the ticker input parsing and run     *)
(* flow of main, calculate_returns for the three strategies, and the       *)
(* figure description built by plot_investment_value.                      *)
(*                                                                         *)
(* Prices, returns and dollar values are exact rationals <<num, den>> in   *)
(* lowest terms (den > 0); the missing value NaN is <<0, 0>>.  Floating    *)
(* point rounding is outside the model.                                    *)
(***************************************************************************)
EXTENDS Integers, Sequences, FiniteSets, TLC

VARIABLES pc, tickers, fetched, initial_investment, log_scale, data,
          returns_open_to_close, returns_close_to_open, returns_buy_and_hold,
          messages, calls, fig, charts, propagated

vars == <<pc, tickers, fetched, initial_investment, log_scale, data,
          returns_open_to_close, returns_close_to_open, returns_buy_and_hold,
          messages, calls, fig, charts, propagated>>

(***************************************************************************)
(* Bounds of the model.                                                    *)
(***************************************************************************)
\* longest ticker text typed into the sidebar
MaxText == 5
\* most trading days in a fetched table
MaxDates == 3
\* most tickers in a fetched table
MaxCols == 2
\* names the table's tickers are taken from, in column order
TickerNames == <<"A", "B", "C">>
\* prices of the single-ticker tables, per field
OpenPrices == {1, 2, 3}
ClosePrices == {2, 3}
AdjClosePrices == {1, 2}
\* characters of the ticker text: a letter, a blank, the separator
Alphabet == {"a", " ", ","}

(***************************************************************************)
(* Arithmetic on values (numpy floats, modelled exactly).                  *)
(***************************************************************************)
NaN == <<0, 0>>

IsNaN(v) == v[2] = 0

Abs(n) == IF n < 0 THEN -n ELSE n

RECURSIVE GCD(_, _)
GCD(a, b) == IF b = 0 THEN a ELSE GCD(b, a % b)

LCM(a, b) == (a \div GCD(a, b)) * b

Norm(n, d) == LET g == GCD(Abs(n), d) IN <<n \div g, d \div g>>

R(n) == <<n, 1>>

RMul(a, b) == IF IsNaN(a) \/ IsNaN(b) THEN NaN ELSE Norm(a[1] * b[1], a[2] * b[2])

\* a zero divisor does not arise: every price of the model is positive
RDiv(a, b) ==
    IF IsNaN(a) \/ IsNaN(b) \/ b[1] = 0 THEN NaN
    ELSE IF b[1] < 0 THEN Norm((0 - a[1]) * b[2], a[2] * (0 - b[1]))
    ELSE Norm(a[1] * b[2], a[2] * b[1])

RAdd(a, b) ==
    IF IsNaN(a) \/ IsNaN(b) THEN NaN
    ELSE LET l == LCM(a[2], b[2])
         IN  Norm(a[1] * (l \div a[2]) + b[1] * (l \div b[2]), l)

RSub(a, b) == IF IsNaN(b) THEN NaN ELSE RAdd(a, <<0 - b[1], b[2]>>)

\* a < b as numpy compares: FALSE when either side is NaN
RLess(a, b) ==
    /\ ~IsNaN(a)
    /\ ~IsNaN(b)
    /\ LET l == LCM(a[2], b[2])
       IN  a[1] * (l \div a[2]) < b[1] * (l \div b[2])

RPositive(a) == RLess(R(0), a)

(***************************************************************************)
(* pandas Series: [index |-> dates, values |-> values], equally long.      *)
(***************************************************************************)
Series(idx, vals) == [index |-> idx, values |-> vals]

\* s1 / s2 of two series on the same index
SeriesDiv(s1, s2) ==
    Series(s1.index, [i \in 1..Len(s1.values) |-> RDiv(s1.values[i], s2.values[i])])

\* s + c and s - c
SeriesAdd(s, c) == Series(s.index, [i \in 1..Len(s.values) |-> RAdd(s.values[i], c)])

SeriesSub(s, c) == Series(s.index, [i \in 1..Len(s.values) |-> RSub(s.values[i], c)])

\* s * c
SeriesMul(s, c) == Series(s.index, [i \in 1..Len(s.values) |-> RMul(s.values[i], c)])

\* s.shift(-1): each date takes the next date's value, the last date NaN
ShiftBack(s) ==
    Series(s.index, [i \in 1..Len(s.values) |->
                        IF i < Len(s.values) THEN s.values[i + 1] ELSE NaN])

\* s.shift(1): each date takes the previous date's value, the first date NaN
ShiftForward(s) ==
    Series(s.index, [i \in 1..Len(s.values) |->
                        IF i > 1 THEN s.values[i - 1] ELSE NaN])

RECURSIVE KeepPositions(_, _, _)
KeepPositions(seq, keep, i) ==
    IF i > Len(seq) THEN <<>>
    ELSE (IF keep[i] THEN <<seq[i]>> ELSE <<>>) \o KeepPositions(seq, keep, i + 1)

\* s.dropna()
DropNa(s) ==
    LET keep == [i \in 1..Len(s.values) |-> ~IsNaN(s.values[i])]
    IN  Series(KeepPositions(s.index, keep, 1), KeepPositions(s.values, keep, 1))

\* forward fill from position i on: a missing value takes the last value
\* before it
RECURSIVE FillForward(_, _, _)
FillForward(vals, i, last) ==
    IF i > Len(vals) THEN <<>>
    ELSE IF IsNaN(vals[i]) THEN <<last>> \o FillForward(vals, i + 1, last)
    ELSE <<vals[i]>> \o FillForward(vals, i + 1, vals[i])

\* s.pct_change(): pandas pads missing values forward, then s / s.shift(1) - 1
PctChange(s) ==
    LET filled == Series(s.index, FillForward(s.values, 1, NaN))
    IN  SeriesSub(SeriesDiv(filled, ShiftForward(filled)), R(1))

\* s.cumprod(): the running product; a NaN stays NaN and is skipped
RECURSIVE CumProdFrom(_, _, _)
CumProdFrom(vals, i, acc) ==
    IF i > Len(vals) THEN <<>>
    ELSE IF IsNaN(vals[i]) THEN <<NaN>> \o CumProdFrom(vals, i + 1, acc)
    ELSE <<RMul(acc, vals[i])>> \o CumProdFrom(vals, i + 1, RMul(acc, vals[i]))

CumProd(s) == Series(s.index, CumProdFrom(s.values, 1, R(1)))


(***************************************************************************)
(* PriceTable: the frame yf.download returns.  dates is its index,         *)
(* tickers the second level of its columns in column order, and col maps   *)
(* each column <<field, ticker>> it holds to that column's values.         *)
(***************************************************************************)
Fields == {"Open", "Close", "Adj Close"}

HasColumn(table, field, ticker) == <<field, ticker>> \in DOMAIN table.col

\* data[field, ticker]
Column(table, field, ticker) == Series(table.dates, table.col[<<field, ticker>>])

\* data.empty: an axis of length 0
IsEmptyTable(table) == Len(table.dates) = 0 \/ DOMAIN table.col = {}

(***************************************************************************)
(* pandas DataFrame of results: index, columns in insertion order, and     *)
(* values[k] the values of column k along the index.                       *)
(***************************************************************************)
EmptyFrame == [index |-> <<>>, columns |-> <<>>, values |-> <<>>]

ColumnSet(frame) == {frame.columns[k] : k \in 1..Len(frame.columns)}

PositionOf(seq, x) == CHOOSE k \in 1..Len(seq) : seq[k] = x

\* frame[ticker]
FrameColumn(frame, ticker) ==
    Series(frame.index, frame.values[PositionOf(frame.columns, ticker)])

\* s.reindex(idx): the value of s at each date of idx, NaN where s has none
Reindex(s, idx) ==
    [i \in 1..Len(idx) |->
        IF \E j \in 1..Len(s.index) : s.index[j] = idx[i]
        THEN s.values[PositionOf(s.index, idx[i])]
        ELSE NaN]

\* frame[ticker] = s for a new column: a frame with no rows takes the index
\* of a non-empty s (its earlier columns become NaN); otherwise s is aligned
\* to the frame's index
SetColumn(frame, ticker, s) ==
    IF Len(frame.index) = 0 /\ Len(s.values) > 0
    THEN [index   |-> s.index,
          columns |-> Append(frame.columns, ticker),
          values  |-> Append([k \in 1..Len(frame.columns) |->
                                 [i \in 1..Len(s.index) |-> NaN]],
                             s.values)]
    ELSE [index   |-> frame.index,
          columns |-> Append(frame.columns, ticker),
          values  |-> Append(frame.values, Reindex(s, frame.index))]

(***************************************************************************)
(* calculate_returns                                                       *)
(***************************************************************************)
Strategies == {"open_to_close", "close_to_open", "buy_and_hold"}

\* the columns a strategy reads, in the order the expression reads them
RequiredFields(strategy) ==
    CASE strategy = "open_to_close" -> <<"Close", "Open">>
      [] strategy = "close_to_open" -> <<"Open", "Close">>
      [] strategy = "buy_and_hold"  -> <<"Adj Close">>

\* the first column lookup of the strategy that raises KeyError, "" if none
MissingField(table, strategy, ticker) ==
    LET req  == RequiredFields(strategy)
        miss == {k \in 1..Len(req) : ~HasColumn(table, req[k], ticker)}
    IN  IF miss = {} THEN ""
        ELSE req[CHOOSE k \in miss : \A m \in miss : k <= m]

\* DailyReturns with the next-day shift of close_to_open left out
DailyReturnsNoShift(table, strategy, ticker) ==
    CASE strategy = "open_to_close" ->
            SeriesSub(SeriesDiv(Column(table, "Close", ticker),
                                Column(table, "Open", ticker)), R(1))
      [] strategy = "close_to_open" ->
            DropNa(SeriesSub(SeriesDiv(Column(table, "Open", ticker),
                                       Column(table, "Close", ticker)), R(1)))
      [] strategy = "buy_and_hold" ->
            DropNa(PctChange(Column(table, "Adj Close", ticker)))

DailyReturns(table, strategy, ticker) ==
    CASE strategy = "open_to_close" ->
            SeriesSub(SeriesDiv(Column(table, "Close", ticker),
                                Column(table, "Open", ticker)), R(1))
      [] strategy = "close_to_open" ->
            DropNa(SeriesSub(SeriesDiv(ShiftBack(Column(table, "Open", ticker)),
                                       Column(table, "Close", ticker)), R(1)))
      [] strategy = "buy_and_hold" ->
            DropNa(PctChange(Column(table, "Adj Close", ticker)))

\* CumulativeReturns without the 1 added to the daily returns
CumulativeReturnsOfChange(table, strategy, ticker) ==
    CumProd(DailyReturns(table, strategy, ticker))

CumulativeReturns(table, strategy, ticker) ==
    CumProd(SeriesAdd(DailyReturns(table, strategy, ticker), R(1)))

KeyErrorMessage(ticker, field) ==
    [kind |-> "KeyError", ticker |-> ticker, detail |-> field]

\* ReturnsLoop leaving the loop at the first KeyError (break for continue)
RECURSIVE ReturnsLoopBreak(_, _, _, _)
ReturnsLoopBreak(table, strategy, k, acc) ==
    IF k > Len(table.tickers) THEN acc
    ELSE LET ticker == table.tickers[k]
             field  == MissingField(table, strategy, ticker)
         IN  IF field # ""
             THEN [acc EXCEPT !.shown = Append(@, [kind |-> "KeyError",
                                                   ticker |-> ticker, detail |-> field])]
             ELSE ReturnsLoopBreak(table, strategy, k + 1,
                      [acc EXCEPT !.returns =
                          SetColumn(@, ticker,
                              CumProd(SeriesAdd(DailyReturns(table, strategy, ticker), R(1))))])

\* the loop over the table's tickers from position k on; acc holds the
\* frame built and the errors shown so far
RECURSIVE ReturnsLoop(_, _, _, _)
ReturnsLoop(table, strategy, k, acc) ==
    IF k > Len(table.tickers) THEN acc
    ELSE LET ticker == table.tickers[k]
             field  == MissingField(table, strategy, ticker)
         IN  IF field # ""
             THEN ReturnsLoop(table, strategy, k + 1,
                      [acc EXCEPT !.shown = Append(@, KeyErrorMessage(ticker, field))])
             ELSE ReturnsLoop(table, strategy, k + 1,
                      [acc EXCEPT !.returns =
                          SetColumn(@, ticker, CumulativeReturns(table, strategy, ticker))])

\* calculate_returns(data, strategy): the frame returned and the errors shown
calculate_returns(table, strategy) ==
    ReturnsLoop(table, strategy, 1, [returns |-> EmptyFrame, shown |-> <<>>])

(***************************************************************************)
(* plot_investment_value: the figure description, or the exception raised  *)
(* while building it.  An axis bound is kept as the number whose log10 it   *)
(* is: [log10 |-> x] stands for np.log10(x).                               *)
(***************************************************************************)
NoFig == [traces |-> <<>>, yaxis_type |-> "none", range |-> <<>>]

Trace(name, x, y) == [name |-> name, x |-> x, y |-> y]

Log10(x) == [log10 |-> x]

\* np.min(all_values[all_values > 0]) if np.any(all_values > 0) else 0.1
RECURSIVE MinPositiveFrom(_, _, _)
MinPositiveFrom(vals, i, best) ==
    IF i > Len(vals) THEN (IF IsNaN(best) THEN <<1, 10>> ELSE best)
    ELSE IF RPositive(vals[i]) /\ (IsNaN(best) \/ RLess(vals[i], best))
         THEN MinPositiveFrom(vals, i + 1, vals[i])
         ELSE MinPositiveFrom(vals, i + 1, best)

MinPositive(vals) == MinPositiveFrom(vals, 1, NaN)

\* np.max(all_values): NaN as soon as one value is NaN
RECURSIVE MaxFrom(_, _, _)
MaxFrom(vals, i, best) ==
    IF i > Len(vals) THEN best
    ELSE IF IsNaN(vals[i]) THEN NaN
    ELSE IF RLess(best, vals[i]) THEN MaxFrom(vals, i + 1, vals[i])
    ELSE MaxFrom(vals, i + 1, best)

MaxValue(vals) == IF IsNaN(vals[1]) THEN NaN ELSE MaxFrom(vals, 2, vals[1])

\* LogRange without the floor under the lower bound
LogRangeNoFloor(all_values, investment) ==
    LET vals          == Append(all_values, investment)
        min_val       == MinPositive(vals)
        max_val       == MaxValue(vals)
        range_padding == RMul(<<1, 10>>, RSub(max_val, min_val))
    IN  << Log10(RSub(min_val, range_padding)),
           Log10(RAdd(max_val, range_padding)) >>

\* the y-axis range of the log scale, from the drawn values
LogRange(all_values, investment) ==
    LET vals          == Append(all_values, investment)
        min_val       == MinPositive(vals)
        max_val       == MaxValue(vals)
        range_padding == RMul(<<1, 10>>, RSub(max_val, min_val))
        low           == RSub(min_val, range_padding)
    IN  << IF RPositive(low) THEN Log10(low) ELSE Log10(<<1, 10>>),
           Log10(RAdd(max_val, range_padding)) >>

\* a ticker of the first collection that the second or third one lacks
LookupFails(otc, cto, bah) ==
    \E k \in 1..Len(otc.columns) :
        otc.columns[k] \notin ColumnSet(cto) \/ otc.columns[k] \notin ColumnSet(bah)

\* the loop over the tickers of the first collection from position k on;
\* acc holds the traces added and the values collected so far
RECURSIVE PlotLoop(_, _, _, _, _, _)
PlotLoop(otc, cto, bah, investment, k, acc) ==
    IF k > Len(otc.columns) THEN acc
    ELSE LET ticker == otc.columns[k]
             v_otc  == SeriesMul(FrameColumn(otc, ticker), investment).values
             v_cto  == SeriesMul(FrameColumn(cto, ticker), investment).values
             v_bah  == SeriesMul(FrameColumn(bah, ticker), investment).values
         IN  PlotLoop(otc, cto, bah, investment, k + 1,
                 [traces |->
                      acc.traces \o
                      << Trace(<<ticker, "Apertura a Cierre">>, otc.index, v_otc),
                         Trace(<<ticker, "Cierre a Apertura">>, cto.index, v_cto),
                         Trace(<<ticker, "Comprar y Mantener">>, bah.index, v_bah) >>,
                  all_values |-> acc.all_values \o v_otc \o v_cto \o v_bah])

plot_investment_value(otc, cto, bah, investment, log) ==
    IF LookupFails(otc, cto, bah)
    THEN [exc |-> "KeyError", fig |-> NoFig]
    ELSE IF Len(otc.index) = 0
    THEN [exc |-> "IndexError", fig |-> NoFig]
    ELSE LET drawn == PlotLoop(otc, cto, bah, investment, 1,
                               [traces |-> <<>>, all_values |-> <<>>])
             line  == Trace(<<"", "Inversion Inicial">>,
                            <<otc.index[1], otc.index[Len(otc.index)]>>,
                            <<investment, investment>>)
         IN  [exc |-> "none",
              fig |-> [traces     |-> Append(drawn.traces, line),
                       yaxis_type |-> IF log THEN "log" ELSE "linear",
                       range      |-> IF log THEN LogRange(drawn.all_values, investment)
                                      ELSE <<>>]]

(***************************************************************************)
(* The ticker text of the sidebar.  A text is a sequence of characters.    *)
(***************************************************************************)
TickerLimit == 5

Upper(c) == IF c = "a" THEN "A" ELSE c

\* text.upper()
UpperText(t) == [i \in 1..Len(t) |-> Upper(t[i])]

\* text.split(','): the pieces between separators, at least one piece
RECURSIVE SplitFrom(_, _, _)
SplitFrom(t, i, piece) ==
    IF i > Len(t) THEN <<piece>>
    ELSE IF t[i] = "," THEN <<piece>> \o SplitFrom(t, i + 1, <<>>)
    ELSE SplitFrom(t, i + 1, Append(piece, t[i]))

Split(t) == SplitFrom(t, 1, <<>>)

\* piece.strip(): without its leading and trailing blanks
Strip(piece) ==
    LET solid == {i \in 1..Len(piece) : piece[i] # " "}
    IN  IF solid = {} THEN <<>>
        ELSE LET first == CHOOSE i \in solid : \A j \in solid : i <= j
                 last  == CHOOSE i \in solid : \A j \in solid : j <= i
             IN  SubSeq(piece, first, last)

\* lst[:5]
Truncate(lst) == IF Len(lst) > TickerLimit THEN SubSeq(lst, 1, TickerLimit) ELSE lst

ParseTickers(t) ==
    LET pieces == Split(UpperText(t))
    IN  Truncate([k \in 1..Len(pieces) |-> Strip(pieces[k])])

(***************************************************************************)
(* Inputs of the model.                                                    *)
(***************************************************************************)
\* texts of the sidebar, up to MaxText characters
Texts == UNION {[1..n -> Alphabet] : n \in 0..MaxText}

\* st.sidebar.number_input(..., min_value=0.01): the smallest amount and
\* the default of 100.00
Investments == {<<1, 100>>, R(100)}

DateIndex(n) == [i \in 1..n |-> i]

Table(n, tks, col) == [dates |-> DateIndex(n), tickers |-> tks, col |-> col]

\* no tickers and no dates
EmptyTable == Table(0, <<>>, <<>>)

\* one ticker with every field on every date: o, cl and a are its Open,
\* Close and Adj Close prices on the dates 1..n
SingleTable(n, o, cl, a) ==
    Table(n, <<TickerNames[1]>>,
          [c \in Fields \X {TickerNames[1]} |->
              [i \in 1..n |-> R(CASE c[1] = "Open"  -> o[i]
                                  [] c[1] = "Close" -> cl[i]
                                  [] OTHER          -> a[i])]])

\* the price of the tables whose columns or gaps vary: it moves with the
\* date, differently for each field and ticker
PatternPrice(field, j, d) ==
    CASE field = "Open"  -> 1 + ((d + j) % 3)
      [] field = "Close" -> 1 + ((2 * d + j) % 3)
      [] OTHER           -> 1 + ((d + 2 * j) % 2)

\* k tickers on MaxDates dates: has[j] is the set of fields ticker j came
\* with, gap[j] the dates on which the fetch brought nothing for it
PatternTable(k, has, gap) ==
    Table(MaxDates, SubSeq(TickerNames, 1, k),
          [c \in UNION {has[j] \X {TickerNames[j]} : j \in 1..k} |->
              LET j == PositionOf(TickerNames, c[2])
              IN  [d \in 1..MaxDates |->
                      IF d \in gap[j] THEN NaN ELSE R(PatternPrice(c[1], j, d))]])

\* every ticker is a column of the table: it came with one field at least
PresenceTables ==
    UNION { { PatternTable(k, has, [j \in 1..k |-> {}])
              : has \in [1..k -> (SUBSET Fields) \ {{}}] }
            : k \in 1..MaxCols }

\* every field, and per-ticker gaps
GapTables ==
    { PatternTable(MaxCols, [j \in 1..MaxCols |-> Fields], gap)
      : gap \in [1..MaxCols -> SUBSET (1..MaxDates)] }

PatternTables == {EmptyTable} \cup PresenceTables \cup GapTables

\* what fetch_data may hand back to main: nothing, or MaxCols tickers of
\* which each came complete or without one of its fields
FetchTables ==
    {EmptyTable} \cup
    { PatternTable(MaxCols, has, [j \in 1..MaxCols |-> {}])
      : has \in [1..MaxCols -> {Fields \ lost : lost \in {{}} \cup {{f} : f \in Fields}}] }

(***************************************************************************)
(* main                                                                    *)
(***************************************************************************)
Message(kind, detail) == [kind |-> kind, ticker |-> "", detail |-> detail]

\* the values a run starts from; txt, inv and log are the widgets' state.
\* Line 84 binds tickers to the text typed, line 85 to the list parsed from it
Start(txt, inv, log, table) ==
    /\ tickers = txt
    /\ fetched = "no"
    /\ initial_investment = inv
    /\ log_scale = log
    /\ data = table
    /\ returns_open_to_close = EmptyFrame
    /\ returns_close_to_open = EmptyFrame
    /\ returns_buy_and_hold = EmptyFrame
    /\ messages = <<>>
    /\ calls = <<>>
    /\ fig = NoFig
    /\ charts = 0
    /\ propagated = FALSE

Init ==
    /\ pc = "inputs"
    /\ \E txt \in Texts, inv \in Investments, log \in BOOLEAN : Start(txt, inv, log, EmptyTable)

\* lines 82-87: the sidebar widgets are read
ReadInputs ==
    /\ pc = "inputs"
    /\ tickers' = ParseTickers(tickers)
    /\ pc' = "button"
    /\ UNCHANGED <<fetched, initial_investment, log_scale, data, returns_open_to_close,
                   returns_close_to_open, returns_buy_and_hold, messages, calls,
                   fig, charts, propagated>>

\* line 89: the run is over when the button was not pressed
NotPressed ==
    /\ pc = "button"
    /\ pc' = "done"
    /\ UNCHANGED <<tickers, fetched, initial_investment, log_scale, data,
                   returns_open_to_close, returns_close_to_open, returns_buy_and_hold,
                   messages, calls, fig, charts, propagated>>

\* lines 89-92: the button was pressed; an empty ticker list ends the run
Pressed ==
    /\ pc = "button"
    /\ IF Len(tickers) = 0
       THEN /\ messages' = Append(messages, Message("error", "no_symbol"))
            /\ pc' = "done"
       ELSE /\ messages' = messages
            /\ pc' = "fetch"
    /\ UNCHANGED <<tickers, fetched, initial_investment, log_scale, data,
                   returns_open_to_close, returns_close_to_open, returns_buy_and_hold,
                   calls, fig, charts, propagated>>

\* lines 102-103: except Exception
Caught(exc) == TRUE

\* an exception raised inside the try block: shown and the run is over,
\* or it leaves main
Handle(exc) ==
    /\ pc' = "done"
    /\ IF Caught(exc)
       THEN /\ messages' = Append(messages, Message("exception", exc))
            /\ propagated' = FALSE
       ELSE /\ messages' = messages
            /\ propagated' = TRUE

\* line 94, fetch_data raises (network, bad symbol)
FetchRaises ==
    /\ pc = "fetch"
    /\ calls' = Append(calls, "fetch_data")
    /\ fetched' = "raised"
    /\ Handle("FetchError")
    /\ UNCHANGED <<tickers, initial_investment, log_scale, data,
                   returns_open_to_close, returns_close_to_open, returns_buy_and_hold,
                   fig, charts>>

\* PassesEmptyCheck with the data.empty test left out
PassesEmptyCheckAlways(table) == TRUE

\* lines 95-97: whether the run goes on to the calculations with this table
PassesEmptyCheck(table) == ~IsEmptyTable(table)

\* lines 94-97, fetch_data returns a table; an empty one ends the run
FetchReturns ==
    /\ pc = "fetch"
    /\ calls' = Append(calls, "fetch_data")
    /\ fetched' = "returned"
    /\ \E table \in FetchTables :
          /\ data' = table
          /\ IF PassesEmptyCheck(table)
             THEN /\ messages' = messages
                  /\ pc' = "open_to_close"
             ELSE /\ messages' = Append(messages, Message("error", "no_data"))
                  /\ pc' = "done"
    /\ UNCHANGED <<tickers, initial_investment, log_scale,
                   returns_open_to_close, returns_close_to_open, returns_buy_and_hold,
                   fig, charts, propagated>>

\* line 98
CalcOpenToClose ==
    /\ pc = "open_to_close"
    /\ LET r == calculate_returns(data, "open_to_close")
       IN  /\ returns_open_to_close' = r.returns
           /\ messages' = messages \o r.shown
    /\ calls' = Append(calls, "open_to_close")
    /\ pc' = "close_to_open"
    /\ UNCHANGED <<tickers, fetched, initial_investment, log_scale, data,
                   returns_close_to_open, returns_buy_and_hold, fig, charts, propagated>>

\* line 99
CalcCloseToOpen ==
    /\ pc = "close_to_open"
    /\ LET r == calculate_returns(data, "close_to_open")
       IN  /\ returns_close_to_open' = r.returns
           /\ messages' = messages \o r.shown
    /\ calls' = Append(calls, "close_to_open")
    /\ pc' = "buy_and_hold"
    /\ UNCHANGED <<tickers, fetched, initial_investment, log_scale, data,
                   returns_open_to_close, returns_buy_and_hold, fig, charts, propagated>>

\* line 100
CalcBuyAndHold ==
    /\ pc = "buy_and_hold"
    /\ LET r == calculate_returns(data, "buy_and_hold")
       IN  /\ returns_buy_and_hold' = r.returns
           /\ messages' = messages \o r.shown
    /\ calls' = Append(calls, "buy_and_hold")
    /\ pc' = "plot"
    /\ UNCHANGED <<tickers, fetched, initial_investment, log_scale, data,
                   returns_open_to_close, returns_close_to_open, fig, charts, propagated>>

\* plot_investment_value called with the three results, the investment
\* inv and the flag log: the figure is built and st.plotly_chart draws it,
\* unless building it raises
PlotStep(inv, log) ==
    /\ pc = "plot"
    /\ calls' = Append(calls, "plot_investment_value")
    /\ LET p == plot_investment_value(returns_open_to_close, returns_close_to_open,
                                      returns_buy_and_hold, inv, log)
       IN  IF p.exc = "none"
           THEN /\ fig' = p.fig
                /\ charts' = charts + 1
                /\ pc' = "done"
                /\ UNCHANGED <<messages, propagated>>
           ELSE /\ Handle(p.exc)
                /\ UNCHANGED <<fig, charts>>
    /\ UNCHANGED <<tickers, fetched, data, returns_open_to_close,
                   returns_close_to_open, returns_buy_and_hold>>

\* line 101
Plot ==
    /\ PlotStep(initial_investment, log_scale)
    /\ UNCHANGED <<initial_investment, log_scale>>

Next ==
    \/ ReadInputs
    \/ NotPressed
    \/ Pressed
    \/ FetchRaises
    \/ FetchReturns
    \/ CalcOpenToClose
    \/ CalcCloseToOpen
    \/ CalcBuyAndHold
    \/ Plot

Spec == Init /\ [][Next]_vars

(***************************************************************************)
(* The three calculations and the plot applied to any PriceTable, as the   *)
(* functions are called one after the other on lines 98-101.               *)
(***************************************************************************)
InitPipeline ==
    /\ pc = "open_to_close"
    /\ \/ \E table \in PatternTables : Start(<<>>, R(100), FALSE, table)
       \/ \E n \in 1..MaxDates :
             \E o \in [1..n -> OpenPrices], cl \in [1..n -> ClosePrices],
                a \in [1..n -> AdjClosePrices] :
                Start(<<>>, R(100), FALSE, SingleTable(n, o, cl, a))

\* plot_investment_value called with any investment and either flag
PlotAny ==
    \E inv \in Investments, log \in BOOLEAN :
        /\ initial_investment' = inv
        /\ log_scale' = log
        /\ PlotStep(inv, log)

NextPipeline ==
    \/ CalcOpenToClose
    \/ CalcCloseToOpen
    \/ CalcBuyAndHold
    \/ PlotAny

SpecPipeline == InitPipeline /\ [][NextPipeline]_vars

(***************************************************************************)
(* Properties.                                                             *)
(***************************************************************************)
Called(name) == \E i \in 1..Len(calls) : calls[i] = name

\* the collection a strategy's call has returned
Returned(strategy) ==
    CASE strategy = "open_to_close" -> returns_open_to_close
      [] strategy = "close_to_open" -> returns_close_to_open
      [] strategy = "buy_and_hold"  -> returns_buy_and_hold

TickerSet(table) == {table.tickers[k] : k \in 1..Len(table.tickers)}

\* the ticker has the field on every date of the table
GapFree(table, field, ticker) ==
    /\ HasColumn(table, field, ticker)
    /\ \A d \in 1..Len(table.dates) : ~IsNaN(table.col[<<field, ticker>>][d])

\* one ticker, every field, every price present
SingleGapFree(table) ==
    /\ Len(table.tickers) = 1
    /\ \A f \in Fields : GapFree(table, f, table.tickers[1])

\* the product of num[from + j] / den[j] over j in 1..k
RECURSIVE RatioProduct(_, _, _, _)
RatioProduct(num, den, from, k) ==
    IF k = 0 THEN R(1)
    ELSE RMul(RatioProduct(num, den, from, k - 1), RDiv(num[from + k], den[k]))

\* C4: for a single ticker with all-positive, gap-free prices on d1..dn,
\* OpenToClose is on all n dates with the product of Close(dj)/Open(dj),
\* CloseToOpen on d1..d(n-1) with the product of Open(d(j+1))/Close(dj),
\* BuyAndHold on d2..dn with the product of AdjClose(dj)/AdjClose(d(j-1)),
\* and no value is negative.
C4_RunningProducts ==
    SingleGapFree(data) =>
        LET t  == data.tickers[1]
            n  == Len(data.dates)
            o  == data.col[<<"Open", t>>]
            c  == data.col[<<"Close", t>>]
            a  == data.col[<<"Adj Close", t>>]
            nonneg(frame) ==
                \A k \in 1..Len(frame.index) :
                    ~IsNaN(frame.values[1][k]) /\ ~RLess(frame.values[1][k], R(0))
        IN  /\ Called("open_to_close") =>
                /\ returns_open_to_close.columns = <<t>>
                /\ returns_open_to_close.index = [k \in 1..n |-> k]
                /\ returns_open_to_close.values[1] =
                       [k \in 1..n |-> RatioProduct(c, o, 0, k)]
                /\ nonneg(returns_open_to_close)
            /\ Called("close_to_open") =>
                /\ returns_close_to_open.columns = <<t>>
                /\ returns_close_to_open.index = [k \in 1..(n - 1) |-> k]
                /\ returns_close_to_open.values[1] =
                       [k \in 1..(n - 1) |-> RatioProduct(o, c, 1, k)]
                /\ nonneg(returns_close_to_open)
            /\ Called("buy_and_hold") =>
                /\ returns_buy_and_hold.columns = <<t>>
                /\ returns_buy_and_hold.index = [k \in 1..(n - 1) |-> k + 1]
                /\ returns_buy_and_hold.values[1] =
                       [k \in 1..(n - 1) |-> RatioProduct(a, a, 1, k)]
                /\ nonneg(returns_buy_and_hold)

\* a single gap-free ticker on three dates whose three series are computed
\* and move: the third OpenToClose value differs from the first and the
\* second CloseToOpen and BuyAndHold values from 1
C4_Witness ==
    /\ SingleGapFree(data)
    /\ Len(data.dates) = 3
    /\ pc = "plot"
    /\ Len(returns_close_to_open.index) = 2
    /\ Len(returns_buy_and_hold.index) = 2
    /\ returns_open_to_close.values[1][3] # returns_open_to_close.values[1][1]
    /\ returns_close_to_open.values[1][2] # R(1)
    /\ returns_buy_and_hold.values[1][2] # R(1)

\* the ticker has Open and Close, positive, on every date of the table
PositiveOpenClose(table, ticker) ==
    /\ Len(table.dates) > 0
    /\ GapFree(table, "Open", ticker)
    /\ GapFree(table, "Close", ticker)

\* C5 as stated: for every ticker with positive Open and Close, the first
\* value of its OpenToClose cumulative return series is 1.0.
C5_FirstValueIsOne ==
    Called("open_to_close") =>
        \A t \in TickerSet(data) :
            PositiveOpenClose(data, t) =>
                /\ t \in ColumnSet(returns_open_to_close)
                /\ FrameColumn(returns_open_to_close, t).values[1] = R(1)

\* C5, amended: for every ticker with positive Open and Close on every date,
\* the OpenToClose series starts on the table's first date with the value
\* Close(d1)/Open(d1), which is 1.0 exactly when the two are equal; a table
\* of one date gives a one-point series with that value.
C5_FirstValueIsFirstRatio ==
    Called("open_to_close") =>
        \A t \in TickerSet(data) :
            PositiveOpenClose(data, t) =>
                /\ t \in ColumnSet(returns_open_to_close)
                /\ LET s == FrameColumn(returns_open_to_close, t)
                       o == data.col[<<"Open", t>>][1]
                       c == data.col[<<"Close", t>>][1]
                   IN  /\ Len(s.values) = Len(data.dates)
                       /\ s.index[1] = data.dates[1]
                       /\ s.values[1] = RDiv(c, o)
                       /\ (s.values[1] = R(1)) <=> (c = o)

\* a table of one date whose one-point OpenToClose series is not 1.0
C5_Witness ==
    /\ Called("open_to_close")
    /\ Len(data.dates) = 1
    /\ \E t \in TickerSet(data) :
          /\ PositiveOpenClose(data, t)
          /\ Len(FrameColumn(returns_open_to_close, t).values) = 1
          /\ FrameColumn(returns_open_to_close, t).values[1] = <<3, 2>>

\* the ticker came with Open and Close but without Adj Close
LacksAdjClose(table, ticker) ==
    /\ HasColumn(table, "Open", ticker)
    /\ HasColumn(table, "Close", ticker)
    /\ ~HasColumn(table, "Adj Close", ticker)

\* the table without the ticker's columns
WithoutTicker(table, ticker) ==
    [dates   |-> table.dates,
     tickers |-> KeepPositions(table.tickers,
                               [k \in 1..Len(table.tickers) |-> table.tickers[k] # ticker], 1),
     col     |-> [c \in {x \in DOMAIN table.col : x[2] # ticker} |-> table.col[c]]]

\* C2: a ticker T with Open and Close but no Adj Close is left out of the
\* buy_and_hold result and is in the open_to_close and close_to_open
\* results; and with or without T in the table, the same other tickers are
\* in each of the three results.
C2_IndependentSkip ==
    \A t \in TickerSet(data) :
        LacksAdjClose(data, t) =>
            /\ Called("open_to_close") => t \in ColumnSet(returns_open_to_close)
            /\ Called("close_to_open") => t \in ColumnSet(returns_close_to_open)
            /\ Called("buy_and_hold") => t \notin ColumnSet(returns_buy_and_hold)
            /\ \A s \in Strategies :
                  Called(s) =>
                      ColumnSet(Returned(s)) \ {t} =
                      ColumnSet(calculate_returns(WithoutTicker(data, t), s).returns)

\* the first ticker lacks Adj Close, the second has every field, and the
\* three results are there: the second ticker is in all of them
C2_Witness ==
    /\ pc = "plot"
    /\ Len(data.tickers) = 2
    /\ LacksAdjClose(data, data.tickers[1])
    /\ ColumnSet(returns_open_to_close) = TickerSet(data)
    /\ ColumnSet(returns_close_to_open) = TickerSet(data)
    /\ ColumnSet(returns_buy_and_hold) = {data.tickers[2]}

\* C10 as stated: in the CloseToOpen and BuyAndHold results every ticker's
\* series has a point, with the ticker's own value, on each of the ticker's
\* own computable dates, whatever dates the tickers before it have.
C10_OwnDatesKept ==
    \A s \in {"close_to_open", "buy_and_hold"} :
        Called(s) =>
            \A t \in ColumnSet(Returned(s)) :
                LET own  == CumulativeReturns(data, s, t)
                    kept == FrameColumn(Returned(s), t)
                IN  \A i \in 1..Len(own.index) :
                        \E j \in 1..Len(kept.index) :
                            /\ kept.index[j] = own.index[i]
                            /\ kept.values[j] = own.values[i]

\* C3 as stated: for the empty PriceTable each strategy's result is empty
\* and plot_investment_value of the three empty results (log scale on or
\* off) completes without raising.
C3_EmptyPlotCompletes ==
    IsEmptyTable(data) =>
        /\ \A s \in Strategies : Called(s) => Returned(s) = EmptyFrame
        /\ Called("plot_investment_value") =>
              /\ \A i \in 1..Len(messages) : messages[i].kind # "exception"
              /\ charts = 1

\* the dollar values the rendered figure draws, the reference line included
DrawnValues ==
    UNION {{fig.traces[k].y[i] : i \in 1..Len(fig.traces[k].y)} : k \in 1..Len(fig.traces)}

\* a chart was rendered on the log scale and every drawn value is a number
LogChartOfNumbers ==
    /\ charts = 1
    /\ fig.yaxis_type = "log"
    /\ \A v \in DrawnValues : ~IsNaN(v)

\* min_val, max_val and the padding as the claim words them: over the drawn
\* values together with the initial investment
ClaimedMin ==
    LET pos == {v \in DrawnValues \cup {initial_investment} : RPositive(v)}
    IN  CHOOSE v \in pos : \A w \in pos : ~RLess(w, v)

ClaimedMax ==
    LET all == DrawnValues \cup {initial_investment}
    IN  CHOOSE v \in all : \A w \in all : ~RLess(v, w)

ClaimedPad == RDiv(RSub(ClaimedMax, ClaimedMin), R(10))

C8_RangeNotDegenerate ==
    (/\ LogChartOfNumbers
     /\ \A v \in DrawnValues : ~RLess(v, R(0))
     /\ ~RLess(initial_investment, <<1, 100>>)) =>
        /\ RPositive(fig.range[1].log10)
        /\ RPositive(fig.range[2].log10)
        /\ RLess(fig.range[1].log10, fig.range[2].log10)

Shown(kind, detail) ==
    \E i \in 1..Len(messages) : messages[i].kind = kind /\ messages[i].detail = detail

FetchRaised == fetched = "raised"

\* fetch_data has returned its table to main
FetchReturned == fetched = "returned"

CalculationCalls == {"open_to_close", "close_to_open", "buy_and_hold"}

\* C6: when the fetch raises or returns an empty table, an error is shown,
\* calculate_returns and plot_investment_value are never called and no
\* chart is rendered; no exception leaves main; a chart is rendered at most
\* once, and only after a non-empty fetch and the three calculations in the
\* order open_to_close, close_to_open, buy_and_hold.
C6_AbortsAndOrder ==
    /\ ~propagated
    /\ charts <= 1
    /\ FetchRaised =>
          /\ pc = "done"
          /\ Shown("exception", "FetchError")
          /\ calls = <<"fetch_data">>
          /\ charts = 0
    /\ (FetchReturned /\ IsEmptyTable(data)) =>
          /\ pc = "done"
          /\ Shown("error", "no_data")
          /\ calls = <<"fetch_data">>
          /\ charts = 0
    /\ (\E c \in CalculationCalls \cup {"plot_investment_value"} : Called(c)) =>
          /\ FetchReturned
          /\ ~IsEmptyTable(data)
    /\ charts = 1 =>
          /\ ~IsEmptyTable(data)
          /\ calls = <<"fetch_data", "open_to_close", "close_to_open",
                       "buy_and_hold", "plot_investment_value">>

\* the fetch has returned an empty table and the run is over
C6_Witness ==
    /\ pc = "done"
    /\ FetchReturned
    /\ IsEmptyTable(data)
    /\ Shown("error", "no_data")

\* the ticker lacks a field one of the strategies reads
LacksRequiredField(table, ticker) ==
    \E s \in Strategies : MissingField(table, s, ticker) # ""

Warned(ticker) ==
    \E i \in 1..Len(messages) :
        messages[i].kind = "KeyError" /\ messages[i].ticker = ticker

\* C1 as stated: in a run whose fetched table is not empty and has a ticker
\* lacking a field a strategy needs, a warning naming the ticker is shown,
\* the run goes through the three calculations and the plot, and the chart
\* is rendered.
C1_SkipAndRender ==
    (/\ pc = "done"
     /\ FetchReturned
     /\ ~IsEmptyTable(data)) =>
        \A t \in TickerSet(data) :
            LacksRequiredField(data, t) =>
                /\ Warned(t)
                /\ calls = <<"fetch_data", "open_to_close", "close_to_open",
                             "buy_and_hold", "plot_investment_value">>
                /\ charts = 1

\* a ticker as fetch_data should get it: not empty, upper case, no blank at
\* either end
WellFormedTicker(t) ==
    /\ Len(t) > 0
    /\ \A i \in 1..Len(t) : t[i] # "a"
    /\ t[1] # " "
    /\ t[Len(t)] # " "

\* C9 as stated: fetch_data is only ever called with a list of 1 to 5
\* tickers, each non-empty, upper-cased and trimmed; a text naming no symbol
\* gets the 'enter at least one symbol' error instead.
C9_FetchArguments ==
    Called("fetch_data") =>
        /\ Len(tickers) \in 1..TickerLimit
        /\ \A k \in 1..Len(tickers) : WellFormedTicker(tickers[k])

=============================================================================
